---- MODULE Spec2Model ----
(***************************************************************************)
(* Model of the row-iteration layer of orcxx (row_iterator.rs,             *)
(* parallel_row_iterator.rs), of the decoders of deserialize.rs and of     *)
(* orcxx_derive, of check_kind, and of the accessors of vector.rs.         *)
(*                                                                         *)
(* A file is a sequence of stripes; the value of a row is its absolute row *)
(* number, so that a row yielded twice, skipped or read from a stale slot  *)
(* shows in the yielded sequence.                                          *)
(***************************************************************************)
EXTENDS Integers, Sequences, FiniteSets, TLC

VARIABLES
    stripes,      \* file layout: number of rows of each stripe (immutable)
    batch_size,   \* the batch_size given to the constructor (immutable)
    it,           \* the RowIterator
    panicked,     \* "" or the assertion that failed in the last call
    ret,          \* what the last call returned
    cursor,       \* ghost: the cursor of an ideal iterator given the same calls
    seeked,       \* ghost: seek() was called since construction
    phase,        \* ghost: which run of calls the iterator is in
    fwd,          \* ghost: rows yielded by the current forward run
    bwd,          \* ghost: rows yielded by the backward run that followed it
    start,        \* ghost: the row the current forward run started at
    ideal,        \* ghost: what the ideal iterator returned to the last call
    producers,    \* parallel iterator: the leaf RowProducers, in range order
    readers,      \* parallel iterator: the row readers created so far
    col,          \* scalar decode: the source column
    dst,          \* scalar decode: the destination slots
    res,          \* scalar decode: the result of the last decode call
    requested,    \* the Rust type a kind is checked against / decoded into
    kind,         \* check_kind: the actual Kind
    src,          \* struct decode: the source StructVectorBatch
    long_iterator,      \* the LongVectorBatchIterator of col
    not_null_iterator,  \* what try_iter_not_null() of col returned
    yielded,      \* ghost: what the calls of next() on both returned so far
    strings,      \* the StringVectorBatch ranges() is called on
    lists,        \* the ListVectorBatch that is iterated on or decoded
    range_iterator,  \* the RangeVectorBatchIterator of lists
    construction  \* what a constructor returned, and ghost: the calls made

vars == <<stripes, batch_size, it, panicked, ret, cursor, seeked, phase, fwd,
          bwd, start, ideal, producers, readers, col, dst, res, requested,
          kind, src, long_iterator, not_null_iterator, yielded, strings,
          lists, range_iterator,
             construction>>

seqVars == <<it, panicked, ret, cursor, seeked, phase, fwd, bwd, start, ideal>>
parVars == <<producers, readers>>
vecVars == <<requested, kind, src, long_iterator, not_null_iterator, yielded,
             strings, lists, range_iterator,
             construction>>
decVars == <<col, dst, res, vecVars>>

----------------------------------------------------------------------------
(* Bounds *)

MaxRows == 4
MaxStripes == 2
MaxBatch == 3
MaxLeaves == 3
MaxParRows == 3
MaxParBatch == 2
MaxLen == 3

(* batch size of the last run of the test suite, larger than any file here *)
TestBatchSize == 10

(* u64::MAX, the row number of a row reader that has not read anything *)
U64_MAX == 2147483647

(* Default::default() of the row type: the content of a slot of the decode
   buffer that holds no row *)
Default == -1

----------------------------------------------------------------------------
(* Helpers *)

Min(a, b) == IF a <= b THEN a ELSE b

RECURSIVE SumSeq(_)
SumSeq(s) == IF s = <<>> THEN 0 ELSE Head(s) + SumSeq(Tail(s))

(* <<a, a+1, ..., b-1>> *)
Range(a, b) == [i \in 1..(IF b > a THEN b - a ELSE 0) |-> a + i - 1]

Reverse(s) == [i \in 1..Len(s) |-> s[Len(s) + 1 - i]]

Some(x) == [some |-> TRUE, v |-> x]
None == [some |-> FALSE, v |-> 0]

RECURSIVE Layouts(_, _)
Layouts(rows, n) ==
    IF n = 0 THEN {<<>>}
    ELSE {<<>>} \cup
         UNION {{<<r>> \o l : l \in Layouts(rows - r, n - 1)} : r \in 1..rows}

----------------------------------------------------------------------------
(* The row reader: orc::RowReader behind reader::RowReader *)

(* Reader::row_count: sum of the stripes' row counts *)
row_count(st) == SumSeq(st)

(* number of the first row of stripe s (0-based) *)
firstRowOfStripe(st, s) == SumSeq(SubSeq(st, 1, s))

(* orc::Reader::createRowReader: the state of a new row reader, positioned
   before the first row *)
createRowReader == [currentStripe |-> 0, currentRowInStripe |-> 0,
                    previousRow |-> U64_MAX]

(* row_reader that hands out the one row reader every caller shares *)
row_reader_shared(rs, rr, slot) == [readers |-> rs, handle |-> 1]

(* Reader::row_reader: a new row reader object of its own, at the free slot
   the allocator picked; the result names it by its handle *)
row_reader(rs, rr, slot) == [readers |-> [rs EXCEPT ![slot] = rr], handle |-> slot]

(* RowReader::get_row_number: the first row of the last batch read, the row
   sought to, or the row count once a read found no more rows *)
get_row_number(rr) == rr.previousRow

(* RowReader::read_into: reads at most `capacity` rows, never across the end
   of a stripe; false when no stripe is left *)
read_into(st, rr, capacity) ==
    IF rr.currentStripe >= Len(st)
    THEN [ok |-> FALSE, batch |-> <<>>,
          rr |-> [rr EXCEPT !.previousRow = row_count(st)]]
    ELSE LET inStripe == st[rr.currentStripe + 1]
             rowsToRead == Min(capacity, inStripe - rr.currentRowInStripe)
             first == firstRowOfStripe(st, rr.currentStripe)
                          + rr.currentRowInStripe
             after == rr.currentRowInStripe + rowsToRead
         IN  [ok |-> rowsToRead # 0,
              batch |-> Range(first, first + rowsToRead),
              rr |-> IF after >= inStripe
                     THEN [currentStripe |-> rr.currentStripe + 1,
                           currentRowInStripe |-> 0,
                           previousRow |-> first]
                     ELSE [currentStripe |-> rr.currentStripe,
                           currentRowInStripe |-> after,
                           previousRow |-> first]]

(* the stripe holding row n, for n below the row count *)
RECURSIVE StripeOf(_, _, _)
StripeOf(st, n, s) ==
    IF s + 1 < Len(st) /\ firstRowOfStripe(st, s + 1) <= n
    THEN StripeOf(st, n, s + 1)
    ELSE s

(* RowReader::seek_to_row *)
seek_to_row(st, rr, n) ==
    IF Len(st) = 0 THEN rr
    ELSE IF n >= row_count(st)
    THEN [rr EXCEPT !.currentStripe = Len(st), !.previousRow = row_count(st)]
    ELSE LET s == StripeOf(st, n, 0)
         IN  [currentStripe |-> s,
              currentRowInStripe |-> n - firstRowOfStripe(st, s),
              previousRow |-> n]

----------------------------------------------------------------------------
(* Decoding a batch into the decode buffer (derived OrcDeserialize of the
   row structure, no null at the root): every slot of the destination is
   reset to its default, then each field writes the batch's rows into the
   first slots; the result is the number of rows of the batch. *)
read_from_vector_batch(batch, decoded_batch) ==
    IF Len(batch) > Len(decoded_batch)
    THEN [ok |-> FALSE, decoded_batch |-> decoded_batch, n |-> 0]
    ELSE [ok |-> TRUE,
          decoded_batch |-> [i \in 1..Len(decoded_batch) |->
                                IF i <= Len(batch) THEN batch[i] ELSE Default],
          n |-> Len(batch)]

(* Vec::get(index).cloned() *)
get(decoded_batch, index) ==
    IF index < Len(decoded_batch) THEN Some(decoded_batch[index + 1]) ELSE None

----------------------------------------------------------------------------
(* RowIterator *)

(* RowIterator::new_with_options, once check_kind has passed *)
new_with_options(st, bs) ==
    [row_reader |-> createRowReader,
     batch |-> <<>>,
     decoded_batch |-> [i \in 1..bs |-> Default],
     index |-> 0,
     decoded_items |-> 0,
     row_count |-> row_count(st)]

(* seek that repositions the row reader and keeps the decoded batch *)
seek_keeps_buffer(st, self, row_number) ==
    [self EXCEPT !.row_reader = seek_to_row(st, self.row_reader, row_number)]

(* seek that forgets to reset the index *)
seek_keeps_index(st, self, row_number) ==
    [self EXCEPT !.row_reader = seek_to_row(st, self.row_reader, row_number),
                 !.decoded_items = 0]

(* RowIterator::seek *)
seek(st, self, row_number) ==
    [self EXCEPT !.row_reader = seek_to_row(st, self.row_reader, row_number),
                 !.index = 0,
                 !.decoded_items = 0]

(* the tail of next() and next_back(): the clone of the slot at the index *)
Yield(self, index, newIndex) ==
    [it |-> [self EXCEPT !.index = newIndex],
     ret |-> get(self.decoded_batch, index),
     panic |-> ""]

(* next that takes the capacity of the batch for the number of decoded rows *)
next_full_batch(st, self) ==
    IF self.index = self.decoded_items
    THEN LET r == read_into(st, self.row_reader, Len(self.decoded_batch))
             read == [self EXCEPT !.index = 0, !.row_reader = r.rr,
                                  !.batch = r.batch]
             d == read_from_vector_batch(r.batch, self.decoded_batch)
         IN  IF ~r.ok
             THEN [it |-> read, ret |-> None, panic |-> ""]
             ELSE Yield([read EXCEPT !.decoded_batch = d.decoded_batch,
                                     !.decoded_items = Len(self.decoded_batch)],
                        0, 1)
    ELSE Yield(self, self.index, self.index + 1)

(* Iterator::next for RowIterator *)
next(st, self) ==
    IF self.index = self.decoded_items
    THEN LET r == read_into(st, self.row_reader, Len(self.decoded_batch))
             read == [self EXCEPT !.index = 0, !.row_reader = r.rr,
                                  !.batch = r.batch]
             d == read_from_vector_batch(r.batch, self.decoded_batch)
         IN  IF ~r.ok
             THEN [it |-> read, ret |-> None, panic |-> ""]
             ELSE IF ~d.ok
             THEN [it |-> read, ret |-> None,
                   panic |-> "read_from_vector_batch() returns an error"]
             ELSE Yield([read EXCEPT !.decoded_batch = d.decoded_batch,
                                     !.decoded_items = d.n], 0, 1)
    ELSE Yield(self, self.index, self.index + 1)

(* DoubleEndedIterator::next_back for RowIterator *)
next_back(st, self) ==
    IF self.index = 0
    THEN LET row_number == get_row_number(self.row_reader)
             bs == Len(self.decoded_batch)
             seek_to == row_number - Min(row_number, bs)
             r == read_into(st, seek_to_row(st, self.row_reader, seek_to), bs)
             read == [self EXCEPT !.row_reader = r.rr, !.batch = r.batch]
             d == read_from_vector_batch(r.batch, self.decoded_batch)
             decoded == [read EXCEPT !.decoded_batch = d.decoded_batch,
                                     !.decoded_items = d.n,
                                     !.index = d.n]
         IN  IF row_number = 0
             THEN [it |-> self, ret |-> None, panic |-> ""]
             ELSE IF ~r.ok
             THEN [it |-> read, ret |-> None,
                   panic |-> "Rows disappeared while rewinding"]
             ELSE IF ~d.ok
             THEN [it |-> read, ret |-> None,
                   panic |-> "read_from_vector_batch() returns an error"]
             ELSE IF d.n = 0
             THEN [it |-> decoded, ret |-> None, panic |-> "Got empty batch"]
             ELSE Yield(decoded, d.n - 1, d.n - 1)
    ELSE Yield(self, self.index - 1, self.index - 1)

(* ExactSizeIterator::len for RowIterator *)
len(self) ==
    LET row_number == get_row_number(self.row_reader)
    IN  IF row_number = U64_MAX
        THEN [v |-> self.row_count, panic |-> ""]
        ELSE IF ~(row_number <= self.row_count)
        THEN [v |-> 0, panic |-> "Iterated past the end (row)"]
        ELSE IF ~(self.index <= self.row_count - row_number)
        THEN [v |-> 0, panic |-> "Iterated past the end (index)"]
        ELSE [v |-> self.row_count - row_number - self.index, panic |-> ""]

----------------------------------------------------------------------------
(* One RowIterator driven by any sequence of calls *)

BatchSizes == (1..MaxBatch) \cup {TestBatchSize}

total_rows == row_count(stripes)

Returned(op, r) == [op |-> op, some |-> r.some, v |-> r.v]

InitFile ==
    /\ stripes \in Layouts(MaxRows, MaxStripes)
    /\ batch_size \in BatchSizes

InitSeq ==
    /\ it = new_with_options(stripes, batch_size)
    /\ panicked = ""
    /\ ret = Returned("new", None)
    /\ ideal = None
    /\ cursor = 0
    /\ seeked = FALSE
    /\ phase = "fwd"
    /\ fwd = <<>>
    /\ bwd = <<>>
    /\ start = 0

InitPar == producers = <<>> /\ readers = <<>>

(* the variables of the vector and kind models when nothing touches them:
   no field asked for, empty batches, iterators over an empty column *)
IdleKind ==
    /\ requested = [t |-> "struct", args |-> <<>>, fields |-> <<>>]
    /\ kind = [k |-> "Struct", fields |-> <<>>]

IdleSrc == src = [not_null |-> None, num_elements |-> 0, fields |-> <<>>]

IdleIter ==
    /\ long_iterator = [data_index |-> 0, not_null_index |-> 0]
    /\ not_null_iterator = Some([index |-> 0])
    /\ yielded = [long |-> <<>>, long_ends |-> 0,
                  not_null |-> <<>>, not_null_ends |-> 0]

IdleStrings ==
    strings = [not_null |-> None, data |-> <<>>, lengths |-> <<>>,
               blob |-> <<>>]

(* an empty list batch (its offsets hold the one entry 0) and its iterator *)
IdleLists ==
    /\ lists = [not_null |-> None, num_elements |-> 0, offsets |-> <<0>>,
                elements |-> [not_null |-> None, data |-> <<>>]]
    /\ range_iterator = [data_index |-> 0, not_null_index |-> 0,
                         markers |-> <<>>, ends |-> 0, reads |-> {}]

(* no constructor called *)
IdleConstruction ==
    construction = [st |-> "none", msg |-> <<>>, events |-> <<>>, calls |-> 0]

InitVec ==
    /\ IdleKind /\ IdleSrc /\ IdleIter /\ IdleStrings /\ IdleLists
    /\ IdleConstruction

InitDec ==
    /\ col = [not_null |-> None, data |-> <<>>]
    /\ dst = <<>>
    /\ res = [called |-> FALSE, r |-> "", before |-> <<>>]
    /\ InitVec

Init == InitFile /\ InitSeq /\ InitPar /\ InitDec

(* the ideal iterator: a single cursor over the rows [0, total_rows) *)
IdealNext(c) ==
    IF c < total_rows THEN [c |-> c + 1, ret |-> Some(c)]
                      ELSE [c |-> c, ret |-> None]

IdealNextBack(c) ==
    IF c > 0 THEN [c |-> c - 1, ret |-> Some(c - 1)]
             ELSE [c |-> c, ret |-> None]

CallNext ==
    /\ panicked = ""
    /\ LET r == next(stripes, it)
           i == IdealNext(cursor)
       IN  /\ it' = r.it
           /\ panicked' = r.panic
           /\ ret' = Returned("next", r.ret)
           /\ ideal' = i.ret
           /\ cursor' = i.c
           /\ IF phase = "fwd" /\ r.panic = ""
              THEN /\ phase' = IF r.ret.some THEN "fwd" ELSE "fwdDone"
                   /\ fwd' = IF r.ret.some THEN Append(fwd, r.ret.v) ELSE fwd
                   /\ UNCHANGED <<bwd, start>>
              ELSE /\ phase' = "mixed"
                   /\ fwd' = <<>>
                   /\ bwd' = <<>>
                   /\ start' = 0
    /\ UNCHANGED <<stripes, batch_size, seeked, parVars, decVars>>

CallNextBack ==
    /\ panicked = ""
    /\ LET r == next_back(stripes, it)
           i == IdealNextBack(cursor)
       IN  /\ it' = r.it
           /\ panicked' = r.panic
           /\ ret' = Returned("next_back", r.ret)
           /\ ideal' = i.ret
           /\ cursor' = i.c
           /\ IF phase \in {"fwdDone", "bwd"} /\ r.panic = ""
              THEN /\ phase' = IF r.ret.some THEN "bwd" ELSE "bwdDone"
                   /\ bwd' = IF r.ret.some THEN Append(bwd, r.ret.v) ELSE bwd
                   /\ UNCHANGED <<fwd, start>>
              ELSE /\ phase' = "mixed"
                   /\ fwd' = <<>>
                   /\ bwd' = <<>>
                   /\ start' = 0
    /\ UNCHANGED <<stripes, batch_size, seeked, parVars, decVars>>

CallSeek ==
    /\ panicked = ""
    /\ \E k \in 0..total_rows :
        /\ it' = seek(stripes, it, k)
        /\ ret' = Returned("seek", Some(k))
        /\ ideal' = Some(k)
        /\ cursor' = k
        /\ start' = k
    /\ seeked' = TRUE
    /\ phase' = "fwd"
    /\ fwd' = <<>>
    /\ bwd' = <<>>
    /\ UNCHANGED <<stripes, batch_size, panicked, parVars, decVars>>

CallLen ==
    /\ panicked = ""
    /\ LET r == len(it)
       IN  /\ panicked' = r.panic
           /\ ret' = Returned("len", Some(r.v))
           /\ ideal' = Some(total_rows - cursor)
    /\ UNCHANGED <<stripes, batch_size, it, cursor, seeked, phase, fwd, bwd,
                   start, parVars, decVars>>

Next == CallNext \/ CallNextBack \/ CallSeek \/ CallLen

Spec == Init /\ [][Next]_vars

----------------------------------------------------------------------------
(* ParallelRowIterator and its RowProducer *)

(* ParallelRowIterator::new_with_options and with_producer: one producer
   over all the rows *)
with_producer(st) ==
    [start |-> 0, end |-> row_count(st), st |-> "producer", handle |-> 0,
     iter |-> new_with_options(<<>>, 1), n |-> 0, out |-> <<>>]

(* split_at that takes the index for an absolute row number *)
split_at_absolute(self, index) ==
    <<[self EXCEPT !.end = index], [self EXCEPT !.start = index]>>

(* RowProducer::split_at *)
split_at(self, index) ==
    <<[self EXCEPT !.end = self.start + index],
      [self EXCEPT !.start = self.start + index]>>

(* into_iter that does not seek to the start of the range *)
into_iter_no_seek(st, bs, rs, self, slot) ==
    LET fresh == new_with_options(st, bs)
        a == row_reader(rs, fresh.row_reader, slot)
    IN  [readers |-> a.readers,
         leaf |-> [self EXCEPT !.st = "iter", !.handle = a.handle,
                               !.iter = fresh,
                               !.n = self.end - self.start]]

(* RowProducer::into_iter: a new RowIterator with a row reader of its own,
   sought to the start of the range and cut after end - start rows *)
into_iter(st, bs, rs, self, slot) ==
    LET fresh == new_with_options(st, bs)
        a == row_reader(rs, fresh.row_reader, slot)
        own == [fresh EXCEPT !.row_reader = a.readers[a.handle]]
        sought == seek(st, own, self.start)
    IN  IF ~(self.start <= self.end)
        THEN [readers |-> rs, leaf |-> [self EXCEPT !.st = "panicked"]]
        ELSE [readers |-> [a.readers EXCEPT ![a.handle] = sought.row_reader],
              leaf |-> [self EXCEPT !.st = "iter", !.handle = a.handle,
                                    !.iter = sought,
                                    !.n = self.end - self.start]]

(* the consumer stops at the first None and drops the iterator, which frees
   its row reader, batch and decode buffer *)
dropped(rs, leaf, outcome) ==
    [readers |-> [rs EXCEPT ![leaf.handle] = createRowReader],
     leaf |-> [leaf EXCEPT !.st = outcome, !.n = 0,
                           !.iter = new_with_options(<<>>, 1)]]

(* Take::next over the RowIterator of a leaf, which reads through the row
   reader its handle names *)
take_next(st, rs, leaf) ==
    IF leaf.n = 0
    THEN dropped(rs, leaf, "done")
    ELSE LET self == [leaf.iter EXCEPT !.row_reader = rs[leaf.handle]]
             r == next(st, self)
         IN  IF r.panic # "" THEN dropped(rs, leaf, "panicked")
             ELSE IF ~r.ret.some THEN dropped(rs, leaf, "done")
             ELSE [readers |-> [rs EXCEPT ![leaf.handle] = r.it.row_reader],
                   leaf |-> [leaf EXCEPT !.iter = r.it,
                                         !.n = leaf.n - 1,
                                         !.out = Append(leaf.out, r.ret.v)]]

(* Iterator::collect: the rows next() yields until it returns None *)
RECURSIVE collect(_, _)
collect(st, self) ==
    LET r == next(st, self)
    IN  IF r.panic = "" /\ r.ret.some
        THEN <<r.ret.v>> \o collect(st, r.it)
        ELSE <<>>

(* Iterator::collect of a Take: at most n rows *)
RECURSIVE collect_take(_, _, _)
collect_take(st, self, n) ==
    LET r == next(st, self)
    IN  IF n # 0 /\ r.panic = "" /\ r.ret.some
        THEN <<r.ret.v>> \o collect_take(st, r.it, n - 1)
        ELSE <<>>

ReplaceAt(s, i, new) == SubSeq(s, 1, i - 1) \o new \o SubSeq(s, i + 1, Len(s))

(* the slots of the heap where row readers live, all free *)
NoReaders == [h \in 1..MaxLeaves |-> createRowReader]

InitParallel ==
    /\ stripes \in Layouts(MaxParRows, MaxStripes)
    /\ batch_size \in 1..MaxParBatch
    /\ InitSeq /\ InitDec
    /\ producers = <<with_producer(stripes)>>
    /\ readers = NoReaders

(* split_at rewrites producers only and so commutes with the steps of the
   leaves that run: taking all the splits first loses no state, and lets a
   leaf's row reader live at the slot of the leaf's position *)
SplitAt ==
    /\ Len(producers) < MaxLeaves
    /\ \A j \in 1..Len(producers) : producers[j].st = "producer"
    /\ \E i \in 1..Len(producers) :
        /\ producers[i].st = "producer"
        /\ \E index \in 0..(producers[i].end - producers[i].start) :
            producers' = ReplaceAt(producers, i, split_at(producers[i], index))
    /\ UNCHANGED <<stripes, batch_size, readers, seqVars, decVars>>

IntoIter ==
    /\ \E i \in 1..Len(producers) :
        /\ producers[i].st = "producer"
        /\ LET r == into_iter(stripes, batch_size, readers, producers[i], i)
           IN  /\ producers' = [producers EXCEPT ![i] = r.leaf]
               /\ readers' = r.readers
    /\ UNCHANGED <<stripes, batch_size, seqVars, decVars>>

TakeNext ==
    /\ \E i \in 1..Len(producers) :
        /\ producers[i].st = "iter"
        /\ LET r == take_next(stripes, readers, producers[i])
           IN  /\ producers' = [producers EXCEPT ![i] = r.leaf]
               /\ readers' = r.readers
    /\ UNCHANGED <<stripes, batch_size, seqVars, decVars>>

NextParallel == SplitAt \/ IntoIter \/ TakeNext

SpecParallel == InitParallel /\ [][NextParallel]_vars

----------------------------------------------------------------------------
(* Scalar columns and their decoders (impl_scalar!) *)

(* a value of the column that its cast rejects (bytes that are not UTF-8) *)
BadValue == 0

Values == {BadValue, 1, 2}

(* LongVectorBatchIterator: one item per element; the data cursor advances
   on non-null elements only *)
RECURSIVE iter_from(_, _, _)
iter_from(c, not_null_index, data_index) ==
    IF not_null_index >= Len(c.data) THEN <<>>
    ELSE IF c.not_null.some /\ c.not_null.v[not_null_index + 1] = 0
    THEN <<None>> \o iter_from(c, not_null_index + 1, data_index)
    ELSE <<Some(c.data[data_index + 1])>>
             \o iter_from(c, not_null_index + 1, data_index + 1)

iter(c) == iter_from(c, 0, 0)

(* the loop over src.iter().zip(dst.iter_mut()): writes the cast of each
   value to its slot and stops at the first value the cast rejects *)
RECURSIVE write_from(_, _, _)
write_from(items, d, i) ==
    IF i > Len(items) \/ i > Len(d) THEN [r |-> "Ok", dst |-> d]
    ELSE IF items[i].v = BadValue THEN [r |-> "Utf8Error", dst |-> d]
    ELSE write_from(items, [d EXCEPT ![i] = items[i].v], i + 1)

(* a decoder that finds the null only when its loop reaches it *)
RECURSIVE write_until_null(_, _, _)
write_until_null(items, d, i) ==
    IF i > Len(items) \/ i > Len(d) THEN [r |-> "Ok", dst |-> d]
    ELSE IF ~items[i].some THEN [r |-> "UnexpectedNull", dst |-> d]
    ELSE IF items[i].v = BadValue THEN [r |-> "Utf8Error", dst |-> d]
    ELSE write_until_null(items, [d EXCEPT ![i] = items[i].v], i + 1)

scalar_read_lazy_null_check(c, d) == write_until_null(iter(c), d, 1)

(* OrcDeserialize::read_from_vector_batch for a scalar type (not Option) *)
scalar_read_from_vector_batch(c, d) ==
    IF c.not_null.some
    THEN [r |-> "UnexpectedNull", dst |-> d]
    ELSE write_from(iter(c), d, 1)

Columns ==
    UNION {{[not_null |-> nn, data |-> data] :
                nn \in {None} \cup {Some(b) : b \in [1..n -> {0, 1}]},
                data \in [1..n -> Values]} : n \in 0..MaxLen}

InitDecode ==
    /\ stripes = <<>> /\ batch_size = 1
    /\ InitSeq /\ InitPar
    /\ col \in Columns
    /\ dst \in {[i \in 1..m |-> Default] : m \in 0..MaxLen}
    /\ res = [called |-> FALSE, r |-> "", before |-> <<>>]
    /\ InitVec

DecodeScalar ==
    /\ ~res.called
    /\ LET d == scalar_read_from_vector_batch(col, dst)
       IN  /\ dst' = d.dst
           /\ res' = [called |-> TRUE, r |-> d.r, before |-> dst]
    /\ UNCHANGED <<stripes, batch_size, col, seqVars, parVars, vecVars>>

NextDecode == DecodeScalar

SpecDecode == InitDecode /\ [][NextDecode]_vars

----------------------------------------------------------------------------
(* Kinds and check_kind *)

MaxFields == 3

(* a leaf Kind, and Kind::Struct with its fields in file order *)
Kind(k) == [k |-> k, fields |-> <<>>]
KindStruct(fields) == [k |-> "Struct", fields |-> fields]

(* the Rust types a kind is checked against *)
Scalar(t) == [t |-> t, args |-> <<>>, fields |-> <<>>]
Option(ty) == [t |-> "Option", args |-> <<ty>>, fields |-> <<>>]
Struct(fields) == [t |-> "struct", args |-> <<>>, fields |-> fields]

Ok == [ok |-> TRUE, errors |-> <<>>]
Err(lines) == [ok |-> FALSE, errors |-> lines]

(* the kind each instantiation of impl_scalar! expects *)
ScalarKind(t) ==
    CASE t = "bool" -> "Boolean"
      [] t = "i8" -> "Byte"
      [] t = "i16" -> "Short"
      [] t = "i32" -> "Int"
      [] t = "i64" -> "Long"
      [] t = "f32" -> "Float"
      [] t = "f64" -> "Double"
      [] t = "String" -> "String"
      [] t = "Vec<u8>" -> "Binary"

(* integer kinds by width, for a check that lets a narrower kind in *)
Width(k) ==
    CASE k = "Byte" -> 1 [] k = "Short" -> 2 [] k = "Int" -> 3
      [] k = "Long" -> 4 [] OTHER -> 0

check_kind_equals_widening(got_kind, expected_kind, type_name) ==
    IF \/ got_kind = expected_kind
       \/ /\ Width(got_kind.k) > 0
          /\ Width(got_kind.k) <= Width(expected_kind.k)
    THEN Ok
    ELSE Err(<<[why |-> "must be decoded from", n |-> -1,
                field |-> type_name, got |-> got_kind.k]>>)

check_kind_equals(got_kind, expected_kind, type_name) ==
    IF got_kind = expected_kind
    THEN Ok
    ELSE Err(<<[why |-> "must be decoded from", n |-> -1,
                field |-> type_name, got |-> got_kind.k]>>)

RECURSIVE check_kind(_, _)

(* a check of the fields that gives up at the first field that fails *)
RECURSIVE check_fields_first_error(_, _, _)
check_fields_first_error(rf, af, i) ==
    IF i >= Len(rf) THEN <<>>
    ELSE IF i >= Len(af)
    THEN <<[why |-> "is missing", n |-> -1, field |-> rf[i + 1].name,
            got |-> ""]>>
    ELSE IF af[i + 1].name # rf[i + 1].name
    THEN <<[why |-> "must be called", n |-> i, field |-> rf[i + 1].name,
            got |-> af[i + 1].name]>>
    ELSE IF ~check_kind(rf[i + 1].ty, af[i + 1].kind).ok
    THEN <<[why |-> "cannot be decoded", n |-> -1, field |-> rf[i + 1].name,
            got |-> af[i + 1].kind.k]>>
    ELSE check_fields_first_error(rf, af, i + 1)

(* the unrolled loop of the derived check_kind: one fields.next() for each
   field of the struct, i being the index enumerate() gives; returns the
   lines pushed to errors *)
RECURSIVE check_fields(_, _, _)
check_fields(rf, af, i) ==
    IF i >= Len(rf) THEN <<>>
    ELSE LET line ==
                 IF i >= Len(af)
                 THEN <<[why |-> "is missing", n |-> -1,
                         field |-> rf[i + 1].name, got |-> ""]>>
                 ELSE IF af[i + 1].name # rf[i + 1].name
                 THEN <<[why |-> "must be called", n |-> i,
                         field |-> rf[i + 1].name, got |-> af[i + 1].name]>>
                 ELSE IF ~check_kind(rf[i + 1].ty, af[i + 1].kind).ok
                 THEN <<[why |-> "cannot be decoded", n |-> -1,
                         field |-> rf[i + 1].name, got |-> af[i + 1].kind.k]>>
                 ELSE <<>>
         IN  line \o check_fields(rf, af, i + 1)

(* CheckableKind::check_kind of a derived struct *)
check_kind_impl(ty, kd) ==
    IF kd.k = "Struct"
    THEN LET errors == check_fields(ty.fields, kd.fields, 0)
         IN  IF errors = <<>> THEN Ok ELSE Err(errors)
    ELSE Err(<<[why |-> "must be decoded from Kind::Struct", n |-> -1,
                field |-> "", got |-> kd.k]>>)

(* CheckableKind::check_kind of a scalar, of Option<T>, of a derived struct *)
check_kind(ty, kd) ==
    IF ty.t = "Option" THEN check_kind(ty.args[1], kd)
    ELSE IF ty.t = "struct" THEN check_kind_impl(ty, kd)
    ELSE check_kind_equals(kd, Kind(ScalarKind(ty.t)), ty.t)

ScalarTypes ==
    {"bool", "i8", "i16", "i32", "i64", "f32", "f64", "String", "Vec<u8>"}

LeafKinds ==
    {"Boolean", "Byte", "Short", "Int", "Long", "Float", "Double", "String",
     "Binary", "Timestamp"}

(* the columns of TestOrcFile.test1.orc the tests select, and the types the
   structs of the tests give them *)
FieldNames == {"long1", "string1", "bytes1"}
FieldTypes == {Option(Scalar("i64")), Option(Scalar("String")),
               Option(Scalar("Vec<u8>"))}
FieldKinds == {Kind("Long"), Kind("String"), Kind("Binary")}

(* field names are distinct, in a Rust struct and in an ORC struct alike *)
DistinctNames(n) ==
    {ns \in [1..n -> FieldNames] :
        \A i, j \in 1..n : ns[i] = ns[j] => i = j}

StructTypes ==
    UNION {{Struct([i \in 1..n |-> [name |-> ns[i], ty |-> ts[i]]]) :
                ns \in DistinctNames(n), ts \in [1..n -> FieldTypes]} :
           n \in 0..MaxFields}

StructKinds ==
    UNION {{KindStruct([i \in 1..n |-> [name |-> ns[i], kind |-> ks[i]]]) :
                ns \in DistinctNames(n), ks \in [1..n -> FieldKinds]} :
           n \in 0..MaxFields}

RequestedTypes ==
    {Scalar(t) : t \in ScalarTypes} \cup {Option(Scalar(t)) : t \in ScalarTypes}
        \cup StructTypes

Kinds == {Kind(k) : k \in LeafKinds} \cup StructKinds

InitKind ==
    /\ stripes = <<>> /\ batch_size = 1
    /\ InitSeq /\ InitPar
    /\ col = [not_null |-> None, data |-> <<>>]
    /\ dst = <<>>
    /\ res = [called |-> FALSE, r |-> Ok, before |-> <<>>]
    /\ requested \in RequestedTypes
    /\ kind \in Kinds
    /\ IdleSrc /\ IdleIter /\ IdleStrings /\ IdleLists
    /\ IdleConstruction

CheckKind ==
    /\ ~res.called
    /\ res' = [called |-> TRUE, r |-> check_kind(requested, kind),
               before |-> <<>>]
    /\ UNCHANGED <<stripes, batch_size, col, dst, seqVars, parVars, vecVars>>

NextKind == CheckKind

SpecKind == InitKind /\ [][NextKind]_vars

----------------------------------------------------------------------------
(* Struct batches and the derived OrcDeserialize of a struct *)

MaxStructRows == 2

(* what a destination slot holds before the call: the row of an earlier
   batch *)
Stale == -2

(* the columns of TestOrcFile.test1.orc the struct decode is modelled on: a
   long column and a string column *)
StructFieldNames == {"long1", "string1"}

NaturalType(name) == IF name = "long1" THEN Scalar("i64") ELSE Scalar("String")
NaturalKind(name) == IF name = "long1" THEN Kind("Long") ELSE Kind("String")

(* the library fills a scalar buffer with one slot per row, the slot of a
   null row holding no value; the value of row i - 1 of a column, which
   names the column and the row *)
SlotValue(name, i) == (IF name = "long1" THEN 10 ELSE 20) + i

(* StringVectorBatchIterator: one item per element, data and lengths read at
   the index of the element *)
string_iter(c) ==
    [i \in 1..Len(c.data) |->
        IF c.not_null.some /\ c.not_null.v[i] = 0 THEN None
        ELSE Some(c.data[i])]

(* try_into_longs / try_into_strings: the cast fails on a batch of another
   class *)
try_into(ty, c) ==
    IF ScalarKind(ty.t) \in {"Boolean", "Byte", "Short", "Int", "Long"}
    THEN IF c.kind.k \in {"Boolean", "Byte", "Short", "Int", "Long"}
         THEN [ok |-> TRUE, items |-> iter(c)]
         ELSE [ok |-> FALSE, items |-> <<>>]
    ELSE IF ScalarKind(ty.t) \in {"String", "Binary"}
    THEN IF c.kind.k \in {"String", "Binary"}
         THEN [ok |-> TRUE, items |-> string_iter(c)]
         ELSE [ok |-> FALSE, items |-> <<>>]
    ELSE [ok |-> FALSE, items |-> <<>>]

(* the loop over src.iter().zip(dst.iter_mut()) when dst is the projection
   of the struct slots on their field number j *)
RECURSIVE write_field(_, _, _, _, _)
write_field(items, d, j, opt, i) ==
    IF i > Len(items) \/ i > Len(d) THEN d
    ELSE write_field(items,
                     [d EXCEPT ![i][j] = IF opt THEN items[i] ELSE items[i].v],
                     j, opt, i + 1)

(* OrcDeserialize::read_from_vector_batch of a scalar type and of Option of
   a scalar type, into field j of the struct slots *)
field_read_from_vector_batch(ty, c, d, j) ==
    IF ty.t = "Option"
    THEN LET s == try_into(ty.args[1], c)
         IN  IF ~s.ok THEN [r |-> "MismatchedColumnKind", dst |-> d]
             ELSE [r |-> "Ok", dst |-> write_field(s.items, d, j, TRUE, 1)]
    ELSE IF c.not_null.some THEN [r |-> "UnexpectedNull", dst |-> d]
    ELSE LET s == try_into(ty, c)
         IN  IF ~s.ok THEN [r |-> "MismatchedColumnKind", dst |-> d]
             ELSE [r |-> "Ok", dst |-> write_field(s.items, d, j, FALSE, 1)]

(* the fields of the struct decoded in order, each from the next column *)
RECURSIVE read_fields(_, _, _, _)
read_fields(ty, batch, d, j) ==
    IF j > Len(ty.fields) THEN [r |-> "Ok", dst |-> d]
    ELSE LET f == field_read_from_vector_batch(ty.fields[j].ty,
                                               batch.fields[j], d, j)
         IN  IF f.r # "Ok" THEN f ELSE read_fields(ty, batch, f.dst, j + 1)

(* Default::default() of the struct *)
DefaultStruct(ty) ==
    [j \in 1..Len(ty.fields) |->
        IF ty.fields[j].ty.t = "Option" THEN None ELSE Default]

(* the slots set to the default before the fields are decoded: all of them
   when the batch has no validity bitmap, else those of the non-null rows *)
reset_slots(ty, batch, d) ==
    [i \in 1..Len(d) |->
        IF \/ ~batch.not_null.some
           \/ i <= batch.num_elements /\ batch.not_null.v[i] # 0
        THEN DefaultStruct(ty) ELSE d[i]]

(* a decoder that sets the slots to the default before it compares the
   lengths *)
struct_read_resets_first(ty, batch, d) ==
    IF Len(batch.fields) # Len(ty.fields)
    THEN [r |-> "panic", dst |-> d, n |-> 0]
    ELSE IF batch.num_elements > Len(d)
    THEN [r |-> "MismatchedLength", dst |-> reset_slots(ty, batch, d), n |-> 0]
    ELSE LET f == read_fields(ty, batch, reset_slots(ty, batch, d), 1)
         IN  [r |-> f.r, dst |-> f.dst,
              n |-> IF f.r = "Ok" THEN batch.num_elements ELSE 0]

(* OrcDeserialize::read_from_vector_batch of a derived struct: the prelude
   (column count asserted, then lengths compared), the reset of the slots,
   the fields *)
struct_read_from_vector_batch(ty, batch, d) ==
    IF Len(batch.fields) # Len(ty.fields)
    THEN [r |-> "panic", dst |-> d, n |-> 0]
    ELSE IF batch.num_elements > Len(d)
    THEN [r |-> "MismatchedLength", dst |-> d, n |-> 0]
    ELSE LET f == read_fields(ty, batch, reset_slots(ty, batch, d), 1)
         IN  [r |-> f.r, dst |-> f.dst,
              n |-> IF f.r = "Ok" THEN batch.num_elements ELSE 0]

(* RowReader::selected_kind of the reader a batch comes from *)
selected_kind(batch) ==
    KindStruct([j \in 1..Len(batch.fields) |->
                   [name |-> batch.fields[j].name,
                    kind |-> batch.fields[j].kind]])

DistinctStructNames(n) ==
    {ns \in [1..n -> StructFieldNames] :
        \A i, j \in 1..n : ns[i] = ns[j] => i = j}

Bitmaps(n) == {None} \cup {Some(b) : b \in [1..n -> {0, 1}]}

(* the validity bitmaps of the m columns of a struct of n rows whose own
   bitmap is nn: a row that is null in the struct is null in every column *)
ColumnBitmaps(n, m, nn) ==
    {c \in [1..m -> Bitmaps(n)] :
        \A j \in 1..m : \A i \in 1..n :
            (nn.some /\ nn.v[i] = 0) => (c[j].some /\ c[j].v[i] = 0)}

StructBatch(n, nn, ns, cn) ==
    [not_null |-> nn, num_elements |-> n,
     fields |-> [j \in 1..Len(ns) |->
                    [name |-> ns[j], kind |-> NaturalKind(ns[j]),
                     not_null |-> cn[j],
                     data |-> [i \in 1..n |-> SlotValue(ns[j], i)]]]]

(* the struct batches of n rows *)
StructBatches(n) ==
    UNION {UNION {{StructBatch(n, nn, ns, cn) :
                       ns \in DistinctStructNames(m),
                       cn \in ColumnBitmaps(n, m, nn)} :
                  nn \in Bitmaps(n)} :
           m \in 0..Cardinality(StructFieldNames)}

(* the types of the fields named ns: each the type of its column, bare or in
   Option *)
FieldTypesOf(ns) ==
    {[j \in 1..Len(ns) |->
         IF o[j] THEN Option(NaturalType(ns[j])) ELSE NaturalType(ns[j])] :
        o \in [1..Len(ns) -> BOOLEAN]}

DecodedStructs ==
    UNION {UNION {{Struct([j \in 1..m |-> [name |-> ns[j], ty |-> ts[j]]]) :
                       ts \in FieldTypesOf(ns)} :
                  ns \in DistinctStructNames(m)} :
           m \in 0..Cardinality(StructFieldNames)}

StaleStruct(ty) ==
    [j \in 1..Len(ty.fields) |->
        IF ty.fields[j].ty.t = "Option" THEN Some(Stale) ELSE Stale]

InitStruct ==
    /\ stripes = <<>> /\ batch_size = 1
    /\ InitSeq /\ InitPar
    /\ col = [not_null |-> None, data |-> <<>>]
    /\ requested \in DecodedStructs
    /\ src \in UNION {StructBatches(n) : n \in 0..MaxStructRows}
    /\ kind = selected_kind(src)
    /\ dst \in {[i \in 1..m |-> StaleStruct(requested)] : m \in 0..MaxStructRows}
    /\ res = [called |-> FALSE, r |-> "", before |-> <<>>, n |-> 0]
    /\ IdleIter /\ IdleStrings /\ IdleLists
    /\ IdleConstruction

DecodeStruct ==
    /\ ~res.called
    /\ LET d == struct_read_from_vector_batch(requested, src, dst)
       IN  /\ dst' = d.dst
           /\ res' = [called |-> TRUE, r |-> d.r, before |-> dst, n |-> d.n]
    /\ UNCHANGED <<stripes, batch_size, col, seqVars, parVars, vecVars>>

NextStruct == DecodeStruct

SpecStruct == InitStruct /\ [][NextStruct]_vars

----------------------------------------------------------------------------
(* The derived OrcDeserializeOption of a struct: decode into Option<struct>
   slots *)

(* what unsafe_unwrap() of a None does: it panics in a build with debug
   assertions, and is undefined in a build without, where the field is
   written behind a tag that stays None *)
UnwrapOutcomes == {"panic", "unchecked"}

(* dst.map(|struct_| unsafe_unwrap(struct_.as_mut()).field): the structs the
   projection reaches through the slots *)
unwrapped(ty, d) ==
    [i \in 1..Len(d) |-> IF d[i].some THEN d[i].v ELSE DefaultStruct(ty)]

(* the first slot, among the n the loop of a field visits, that is None *)
first_none(d, n) ==
    IF \E i \in 1..n : ~d[i].some
    THEN CHOOSE i \in 1..n : ~d[i].some /\ \A k \in 1..(i - 1) : d[k].some
    ELSE n + 1

(* OrcDeserialize::read_from_vector_batch of field j through the
   projection: the loop of the field unwraps every slot it visits *)
option_field_read_from_vector_batch(ty, c, d, j, ub) ==
    LET f == field_read_from_vector_batch(ty.fields[j].ty, c,
                                          unwrapped(ty, d), j)
        n == Min(Len(c.data), Len(d))
        stop == IF f.r = "Ok" /\ ub = "panic" THEN first_none(d, n)
                ELSE n + 1
    IN  [r |-> IF stop <= n THEN "panic" ELSE f.r,
         dst |-> [i \in 1..Len(d) |->
                     IF d[i].some /\ i < stop THEN Some(f.dst[i]) ELSE d[i]]]

RECURSIVE read_option_fields(_, _, _, _, _)
read_option_fields(ty, batch, d, j, ub) ==
    IF j > Len(ty.fields) THEN [r |-> "Ok", dst |-> d]
    ELSE LET f == option_field_read_from_vector_batch(ty, batch.fields[j],
                                                      d, j, ub)
         IN  IF f.r # "Ok" THEN f
             ELSE read_option_fields(ty, batch, f.dst, j + 1, ub)

(* the slots set to Some(default) before the fields are decoded: all of them
   when the batch has no validity bitmap, else those of the non-null rows *)
reset_option_slots(ty, batch, d) ==
    [i \in 1..Len(d) |->
        IF \/ ~batch.not_null.some
           \/ i <= batch.num_elements /\ batch.not_null.v[i] # 0
        THEN Some(DefaultStruct(ty)) ELSE d[i]]

(* OrcDeserializeOption::read_options_from_vector_batch of a derived
   struct: the prelude, the reset of the slots of the non-null rows, the
   fields *)
struct_read_options_from_vector_batch(ty, batch, d, ub) ==
    IF Len(batch.fields) # Len(ty.fields)
    THEN [r |-> "panic", dst |-> d, n |-> 0]
    ELSE IF batch.num_elements > Len(d)
    THEN [r |-> "MismatchedLength", dst |-> d, n |-> 0]
    ELSE LET f == read_option_fields(ty, batch,
                                     reset_option_slots(ty, batch, d), 1, ub)
         IN  [r |-> f.r, dst |-> f.dst,
              n |-> IF f.r = "Ok" THEN batch.num_elements ELSE 0]

(* the slots of a decode buffer of Option<struct>: None as the buffer is
   built, or the row of an earlier batch *)
OptionSlots(ty, m) == [1..m -> {None, Some(StaleStruct(ty))}]

(* the struct batches of n rows that have the columns named ns *)
StructBatchesOf(n, ns) ==
    UNION {{StructBatch(n, nn, ns, cn) :
                cn \in ColumnBitmaps(n, Len(ns), nn)} : nn \in Bitmaps(n)}

InitOptionStruct ==
    /\ stripes = <<>> /\ batch_size = 1
    /\ InitSeq /\ InitPar
    /\ col = [not_null |-> None, data |-> <<>>]
    /\ \E ty \in DecodedStructs : \E n, m \in 0..MaxStructRows :
           /\ requested = Option(ty)
           /\ src \in StructBatchesOf(n, [j \in 1..Len(ty.fields) |->
                                             ty.fields[j].name])
           /\ dst \in OptionSlots(ty, m)
    /\ kind = selected_kind(src)
    /\ res = [called |-> FALSE, r |-> "", before |-> <<>>, n |-> 0]
    /\ IdleIter /\ IdleStrings /\ IdleLists
    /\ IdleConstruction

DecodeOptionStruct ==
    /\ ~res.called
    /\ \E ub \in UnwrapOutcomes :
           LET d == struct_read_options_from_vector_batch(
                        requested.args[1], src, dst, ub)
           IN  /\ dst' = d.dst
               /\ res' = [called |-> TRUE, r |-> d.r, before |-> dst,
                          n |-> d.n]
    /\ UNCHANGED <<stripes, batch_size, col, seqVars, parVars, vecVars>>

NextOptionStruct == DecodeOptionStruct

SpecOptionStruct == InitOptionStruct /\ [][NextOptionStruct]_vars

----------------------------------------------------------------------------
(* The iterators of LongVectorBatch, one call of next() at a time *)

MaxIterLen == 4

(* calls of next() made after an iterator returned None for the first time *)
MaxExtraCalls == 2

IterValues == {10, 20, 30}

(* LongVectorBatch::iter() *)
long_iter(c) == [data_index |-> 0, not_null_index |-> 0]

(* an iterator that reads the slot at the position of the element *)
long_iter_next_at_position(c, self) ==
    IF self.not_null_index >= Len(c.data)
    THEN [it |-> self, some |-> FALSE, item |-> None]
    ELSE IF c.not_null.some /\ c.not_null.v[self.not_null_index + 1] = 0
    THEN [it |-> [self EXCEPT !.not_null_index = @ + 1],
          some |-> TRUE, item |-> None]
    ELSE [it |-> [data_index |-> self.data_index + 1,
                  not_null_index |-> self.not_null_index + 1],
          some |-> TRUE, item |-> Some(c.data[self.not_null_index + 1])]

(* LongVectorBatchIterator::next: `some` tells Some(item) from None *)
long_iter_next(c, self) ==
    IF self.not_null_index >= Len(c.data)
    THEN [it |-> self, some |-> FALSE, item |-> None]
    ELSE IF c.not_null.some /\ c.not_null.v[self.not_null_index + 1] = 0
    THEN [it |-> [self EXCEPT !.not_null_index = @ + 1],
          some |-> TRUE, item |-> None]
    ELSE [it |-> [data_index |-> self.data_index + 1,
                  not_null_index |-> self.not_null_index + 1],
          some |-> TRUE, item |-> Some(c.data[self.data_index + 1])]

(* an accessor that hands out the iterator whatever the batch *)
try_iter_not_null_unchecked(c) == Some([index |-> 0])

(* LongVectorBatch::try_iter_not_null() *)
try_iter_not_null(c) ==
    IF c.not_null.some THEN None ELSE Some([index |-> 0])

(* NotNullLongVectorBatchIterator::next *)
not_null_iter_next(c, self) ==
    IF self.index >= Len(c.data)
    THEN [it |-> self, some |-> FALSE, item |-> 0]
    ELSE [it |-> [index |-> self.index + 1], some |-> TRUE,
          item |-> c.data[self.index + 1]]

(* the batches of n elements *)
LongColumns(n) ==
    {[not_null |-> nn, data |-> data] :
        nn \in Bitmaps(n), data \in [1..n -> IterValues]}

InitIter ==
    /\ stripes = <<>> /\ batch_size = 1
    /\ InitSeq /\ InitPar
    /\ \E n \in 0..MaxIterLen : col \in LongColumns(n)
    /\ dst = <<>>
    /\ res = [called |-> FALSE, r |-> "", before |-> <<>>]
    /\ IdleKind /\ IdleSrc /\ IdleStrings /\ IdleLists
    /\ IdleConstruction
    /\ long_iterator = long_iter(col)
    /\ not_null_iterator = try_iter_not_null(col)
    /\ yielded = [long |-> <<>>, long_ends |-> 0,
                  not_null |-> <<>>, not_null_ends |-> 0]

LongIterNext ==
    /\ yielded.long_ends < MaxExtraCalls
    /\ LET r == long_iter_next(col, long_iterator)
       IN  /\ long_iterator' = r.it
           /\ yielded' = IF r.some
                         THEN [yielded EXCEPT !.long = Append(@, r.item)]
                         ELSE [yielded EXCEPT !.long_ends = @ + 1]
    /\ UNCHANGED <<stripes, batch_size, col, dst, res, seqVars, parVars,
                   requested, kind, src, not_null_iterator, strings,
                   lists, range_iterator,
             construction>>

NotNullIterNext ==
    /\ not_null_iterator.some
    /\ yielded.not_null_ends < MaxExtraCalls
    /\ LET r == not_null_iter_next(col, not_null_iterator.v)
       IN  /\ not_null_iterator' = Some(r.it)
           /\ yielded' = IF r.some
                         THEN [yielded EXCEPT !.not_null = Append(@, r.item)]
                         ELSE [yielded EXCEPT !.not_null_ends = @ + 1]
    /\ UNCHANGED <<stripes, batch_size, col, dst, res, seqVars, parVars,
                   requested, kind, src, long_iterator, strings,
                   lists, range_iterator,
             construction>>

NextIter == LongIterNext \/ NotNullIterNext

SpecIter == InitIter /\ [][NextIter]_vars

----------------------------------------------------------------------------
(* StringVectorBatch: bytes() and ranges() *)

MaxStrings == 4
MaxStrLen == 3

(* a version of ranges() that moves past the length of a null row too *)
RECURSIVE ranges_counting_nulls(_, _, _)
ranges_counting_nulls(c, i, current_index) ==
    IF i >= Len(c.lengths) THEN <<>>
    ELSE IF c.not_null.some /\ c.not_null.v[i + 1] = 0
    THEN <<[some |-> FALSE, start |-> 0, end |-> 0]>>
             \o ranges_counting_nulls(c, i + 1, current_index + c.lengths[i + 1])
    ELSE <<[some |-> TRUE, start |-> current_index,
            end |-> current_index + c.lengths[i + 1]]>>
             \o ranges_counting_nulls(c, i + 1, current_index + c.lengths[i + 1])

(* the loops of ranges(), from row i on: a null row gives None, another row
   the range of lengths[i] bytes that starts at current_index; an entry is
   None or Some(start..end) *)
RECURSIVE ranges_from(_, _, _)
ranges_from(c, i, current_index) ==
    IF i >= Len(c.lengths) THEN <<>>
    ELSE IF c.not_null.some /\ c.not_null.v[i + 1] = 0
    THEN <<[some |-> FALSE, start |-> 0, end |-> 0]>>
             \o ranges_from(c, i + 1, current_index)
    ELSE <<[some |-> TRUE, start |-> current_index,
            end |-> current_index + c.lengths[i + 1]]>>
             \o ranges_from(c, i + 1, current_index + c.lengths[i + 1])

(* StringVectorBatch::ranges *)
ranges(c) == ranges_from(c, 0, 0)

(* StringVectorBatch::bytes *)
bytes(c) == c.blob

(* the bytes of the non-null rows before row i (counted from 1) *)
RECURSIVE BytesBefore(_, _, _)
BytesBefore(nn, lengths, i) ==
    IF i <= 1 THEN 0
    ELSE BytesBefore(nn, lengths, i - 1)
             + (IF nn.some /\ nn.v[i - 1] = 0 THEN 0 ELSE lengths[i - 1])

(* a batch as the library fills it: the blob is the bytes of the non-null
   strings concatenated (byte p of the blob is written p here), data[i]
   is where the string of row i starts in the blob and lengths[i] its
   length; the slots of a null row hold anything *)
StringBatch(nn, lengths) ==
    [not_null |-> nn,
     data |-> [i \in 1..Len(lengths) |-> BytesBefore(nn, lengths, i)],
     lengths |-> lengths,
     blob |-> [p \in 1..BytesBefore(nn, lengths, Len(lengths) + 1) |-> p]]

(* the batches of n rows *)
StringBatches(n) ==
    {StringBatch(nn, lengths) :
        nn \in Bitmaps(n), lengths \in [1..n -> 0..MaxStrLen]}

InitString ==
    /\ stripes = <<>> /\ batch_size = 1
    /\ InitSeq /\ InitPar
    /\ col = [not_null |-> None, data |-> <<>>]
    /\ dst = <<>>
    /\ res = [called |-> FALSE, r |-> <<>>, before |-> <<>>]
    /\ IdleKind /\ IdleSrc /\ IdleIter /\ IdleLists
    /\ IdleConstruction
    /\ \E n \in 0..MaxStrings : strings \in StringBatches(n)

CallRanges ==
    /\ ~res.called
    /\ res' = [called |-> TRUE, r |-> ranges(strings), before |-> <<>>]
    /\ UNCHANGED <<stripes, batch_size, col, dst, seqVars, parVars, vecVars>>

NextString == CallRanges

SpecString == InitString /\ [][NextString]_vars

----------------------------------------------------------------------------
(* ListVectorBatch: iter_offsets() and the decoders of Vec<I> *)

MaxRangeRows == 3
MaxLists == 2
MaxChild == 2

(* a marker of RangeVectorBatchIterator: None, or Some(start..end) *)
NoRange == [some |-> FALSE, start |-> 0, end |-> 0]
SomeRange(a, b) == [some |-> TRUE, start |-> a, end |-> b]

(* ListVectorBatch::iter_offsets / RangeVectorBatchIterator::new *)
iter_offsets(b) == [data_index |-> 0, not_null_index |-> 0]

(* an iterator that reads the offsets at the position of the row *)
range_iter_next_at_position(b, self) ==
    IF self.not_null_index >= b.num_elements
    THEN [it |-> self, some |-> FALSE, item |-> NoRange, reads |-> {}]
    ELSE IF b.not_null.some /\ b.not_null.v[self.not_null_index + 1] = 0
    THEN [it |-> [self EXCEPT !.not_null_index = @ + 1],
          some |-> TRUE, item |-> NoRange, reads |-> {}]
    ELSE [it |-> [data_index |-> self.data_index + 1,
                  not_null_index |-> self.not_null_index + 1],
          some |-> TRUE,
          item |-> SomeRange(b.offsets[self.not_null_index + 1],
                             b.offsets[self.not_null_index + 2]),
          reads |-> {self.not_null_index, self.not_null_index + 1}]

(* RangeVectorBatchIterator::next: `some` tells Some(marker) from None;
   `reads` are the indices of the offsets it reads *)
range_iter_next(b, self) ==
    IF self.not_null_index >= b.num_elements
    THEN [it |-> self, some |-> FALSE, item |-> NoRange, reads |-> {}]
    ELSE IF b.not_null.some /\ b.not_null.v[self.not_null_index + 1] = 0
    THEN [it |-> [self EXCEPT !.not_null_index = @ + 1],
          some |-> TRUE, item |-> NoRange, reads |-> {}]
    ELSE [it |-> [data_index |-> self.data_index + 1,
                  not_null_index |-> self.not_null_index + 1],
          some |-> TRUE,
          item |-> SomeRange(b.offsets[self.data_index + 1],
                             b.offsets[self.data_index + 2]),
          reads |-> {self.data_index, self.data_index + 1}]

(* the markers the iterator yields until it ends *)
RECURSIVE collect_offsets(_, _)
collect_offsets(b, self) ==
    LET r == range_iter_next(b, self)
    IN  IF ~r.some THEN <<>>
        ELSE <<r.item>> \o collect_offsets(b, r.it)

(* the element of place i - 1 of the flat vector of elements, which names
   its place *)
ElementValue(i) == 100 + i

(* the flat vectors of k elements: without a validity bitmap, or with a
   first element that is null *)
ElementColumns(k) ==
    {[not_null |-> nn, data |-> [i \in 1..k |-> ElementValue(i)]] :
        nn \in {None} \cup
               (IF k = 0 THEN {}
                ELSE {Some([i \in 1..k |-> IF i = 1 THEN 0 ELSE 1])})}

(* the list batches of n rows over a flat vector of at most maxk elements:
   an offset for each row and one more *)
ListBatches(n, maxk, children) ==
    {[not_null |-> nn, num_elements |-> n, offsets |-> o, elements |-> c] :
        nn \in Bitmaps(n), o \in [1..(n + 1) -> 0..maxk], c \in children}

InitRange ==
    /\ stripes = <<>> /\ batch_size = 1
    /\ InitSeq /\ InitPar
    /\ col = [not_null |-> None, data |-> <<>>]
    /\ dst = <<>>
    /\ res = [called |-> FALSE, r |-> "", before |-> <<>>]
    /\ IdleKind /\ IdleSrc /\ IdleIter /\ IdleStrings
    /\ \E n \in 0..MaxRangeRows :
           lists \in ListBatches(n, MaxChild, ElementColumns(0))
    /\ range_iterator = [data_index |-> 0, not_null_index |-> 0,
                         markers |-> <<>>, ends |-> 0, reads |-> {}]
    /\ IdleConstruction

RangeIterNext ==
    /\ range_iterator.ends < MaxExtraCalls
    /\ LET self == [data_index |-> range_iterator.data_index,
                    not_null_index |-> range_iterator.not_null_index]
           r == range_iter_next(lists, self)
       IN  range_iterator' =
               [data_index |-> r.it.data_index,
                not_null_index |-> r.it.not_null_index,
                markers |-> IF r.some
                            THEN Append(range_iterator.markers, r.item)
                            ELSE range_iterator.markers,
                ends |-> IF r.some THEN range_iterator.ends
                         ELSE range_iterator.ends + 1,
                reads |-> range_iterator.reads \cup r.reads]
    /\ UNCHANGED <<stripes, batch_size, col, dst, res, seqVars, parVars,
                   requested, kind, src, long_iterator, not_null_iterator,
                   yielded, strings, lists, construction>>

NextRange == RangeIterNext

SpecRange == InitRange /\ [][NextRange]_vars

(* the Rust types Vec<I> *)
VecOf(ty) == [t |-> "Vec", args |-> <<ty>>, fields |-> <<>>]

(* the loop of build_list_item!: elements taken from the enumerated
   iterator, of which pos are consumed, until the one of index end - 1 *)
RECURSIVE take_until(_, _, _, _)
take_until(elements, pos, end, array) ==
    IF pos >= Len(elements)
    THEN [r |-> "panic", array |-> array, pos |-> pos]
    ELSE IF pos = end - 1
    THEN [r |-> "Ok", array |-> Append(array, elements[pos + 1]),
          pos |-> pos + 1]
    ELSE take_until(elements, pos + 1, end,
                    Append(array, elements[pos + 1]))

(* build_list_item!: the start of the range asserted equal to the end of
   the range before, then the loop *)
build_list_item(range, last_offset, elements, pos) ==
    IF range.start # last_offset
    THEN [r |-> "panic", array |-> <<>>, pos |-> pos]
    ELSE take_until(elements, pos, range.end, <<>>)

(* a loop over the offsets that does not look for elements left over *)
RECURSIVE list_items_unchecked_end(_, _, _, _, _, _, _)
list_items_unchecked_end(offsets, elements, d, opt, k, last_offset, pos) ==
    IF k > Len(offsets)
    THEN [r |-> "Ok", dst |-> d]
    ELSE IF ~offsets[k].some
    THEN list_items_unchecked_end(offsets, elements, [d EXCEPT ![k] = None],
                                  opt, k + 1, last_offset, pos)
    ELSE LET b == build_list_item(offsets[k], last_offset, elements, pos)
         IN  IF b.r # "Ok" THEN [r |-> b.r, dst |-> d]
             ELSE list_items_unchecked_end(
                      offsets, elements,
                      [d EXCEPT ![k] = IF opt THEN Some(b.array)
                                       ELSE b.array],
                      opt, k + 1, offsets[k].end, b.pos)

(* the loop `for offset in offsets` of both decoders, slot k written from
   marker k, and the check that no element is left over *)
RECURSIVE list_items(_, _, _, _, _, _, _)
list_items(offsets, elements, d, opt, k, last_offset, pos) ==
    IF k > Len(offsets)
    THEN [r |-> IF pos < Len(elements) THEN "panic" ELSE "Ok", dst |-> d]
    ELSE IF ~offsets[k].some
    THEN list_items(offsets, elements, [d EXCEPT ![k] = None], opt, k + 1,
                    last_offset, pos)
    ELSE LET b == build_list_item(offsets[k], last_offset, elements, pos)
         IN  IF b.r # "Ok" THEN [r |-> b.r, dst |-> d]
             ELSE list_items(offsets, elements,
                             [d EXCEPT ![k] = IF opt THEN Some(b.array)
                                              ELSE b.array],
                             opt, k + 1, offsets[k].end, b.pos)

(* init_list_read!: the length of dst asserted, the elements decoded into a
   buffer of defaults *)
init_list_read(b, d) ==
    IF Len(d) # b.num_elements THEN [r |-> "panic", elements |-> <<>>]
    ELSE LET e == scalar_read_from_vector_batch(
                      b.elements,
                      [i \in 1..Len(b.elements.data) |-> Default])
         IN  [r |-> e.r, elements |-> e.dst]

(* OrcDeserializeOption::read_options_from_vector_batch of Vec<I> *)
list_read_options_from_vector_batch(b, d) ==
    LET i == init_list_read(b, d)
    IN  IF i.r # "Ok" THEN [r |-> i.r, dst |-> d]
        ELSE list_items(collect_offsets(b, iter_offsets(b)), i.elements, d,
                        TRUE, 1, 0, 0)

(* OrcDeserialize::read_from_vector_batch of Vec<I> *)
list_read_from_vector_batch(b, d) ==
    IF b.not_null.some THEN [r |-> "UnexpectedNull", dst |-> d]
    ELSE LET i == init_list_read(b, d)
         IN  IF i.r # "Ok" THEN [r |-> i.r, dst |-> d]
             ELSE list_items(collect_offsets(b, iter_offsets(b)),
                             i.elements, d, FALSE, 1, 0, 0)

(* the slots of a destination of lists: each the list of an earlier batch *)
ListSlots(opt, m) ==
    [i \in 1..m |-> IF opt THEN Some(<<Stale>>) ELSE <<Stale>>]

InitList ==
    /\ stripes = <<>> /\ batch_size = 1
    /\ InitSeq /\ InitPar
    /\ col = [not_null |-> None, data |-> <<>>]
    /\ IdleSrc /\ IdleIter /\ IdleStrings
    /\ \E opt \in BOOLEAN : \E n, m \in 0..MaxLists : \E k \in 0..MaxChild :
           /\ requested = IF opt THEN Option(VecOf(Scalar("i64")))
                          ELSE VecOf(Scalar("i64"))
           /\ lists \in ListBatches(n, MaxChild, ElementColumns(k))
           /\ dst = ListSlots(opt, m)
    /\ kind = [k |-> "List", fields |-> <<>>]
    /\ range_iterator = [data_index |-> 0, not_null_index |-> 0,
                         markers |-> <<>>, ends |-> 0, reads |-> {}]
    /\ res = [called |-> FALSE, r |-> "", before |-> <<>>]
    /\ IdleConstruction

DecodeList ==
    /\ ~res.called
    /\ LET d == IF requested.t = "Option"
                THEN list_read_options_from_vector_batch(lists, dst)
                ELSE list_read_from_vector_batch(lists, dst)
       IN  /\ dst' = d.dst
           /\ res' = [called |-> TRUE, r |-> d.r, before |-> dst]
    /\ UNCHANGED <<stripes, batch_size, col, seqVars, parVars, vecVars>>

NextList == DecodeList

SpecList == InitList /\ [][NextList]_vars

----------------------------------------------------------------------------
(* The iterators of the scalar batches, each run to its end *)

(* DoubleVectorBatchIterator, Decimal64VectorBatchIterator and
   Decimal128VectorBatchIterator: the cursors of LongVectorBatchIterator *)
double_iter(c) == iter_from(c, 0, 0)
decimal64_iter(c) == iter_from(c, 0, 0)
decimal128_iter(c) == iter_from(c, 0, 0)

(* TimestampVectorBatchIterator: one index for the bitmap, the seconds and
   the nanoseconds *)
timestamp_iter(c) ==
    [i \in 1..Len(c.data) |->
        IF c.not_null.some /\ c.not_null.v[i] = 0 THEN None
        ELSE Some(c.data[i])]

IteratorFamilies == {"long", "double", "decimal64", "decimal128", "string",
                     "timestamp"}

(* iter() of the batch of each class *)
column_iter(family, c) ==
    CASE family = "long" -> iter(c)
      [] family = "double" -> double_iter(c)
      [] family = "decimal64" -> decimal64_iter(c)
      [] family = "decimal128" -> decimal128_iter(c)
      [] family = "string" -> string_iter(c)
      [] family = "timestamp" -> timestamp_iter(c)

InitColumnIter ==
    /\ stripes = <<>> /\ batch_size = 1
    /\ InitSeq /\ InitPar
    /\ \E n \in 0..MaxIterLen : col \in LongColumns(n)
    /\ dst = <<>>
    /\ res = [called |-> FALSE, r |-> "", items |-> <<>>]
    /\ InitVec

IterateColumn ==
    /\ ~res.called
    /\ \E family \in IteratorFamilies :
           res' = [called |-> TRUE, r |-> family,
                   items |-> column_iter(family, col)]
    /\ UNCHANGED <<stripes, batch_size, col, dst, seqVars, parVars, vecVars>>

NextColumnIter == IterateColumn

SpecColumnIter == InitColumnIter /\ [][NextColumnIter]_vars

----------------------------------------------------------------------------
(* The constructors of RowIterator and ParallelRowIterator, and the calls
   they and the iterators make *)

MaxCalls == 2

(* a constructor that builds the iterator whatever check_kind returns *)
RowIterator_new_unchecked(ty, kd) ==
    [ok |-> TRUE, msg |-> <<>>,
     events |-> <<"row_reader", "check_kind", "row_batch">>]

(* RowIterator::new_with_options: the row reader, check_kind on its
   selected kind, and on Ok the batch and the decode buffer *)
RowIterator_new_with_options(ty, kd) ==
    LET c == check_kind(ty, kd)
    IN  IF ~c.ok
        THEN [ok |-> FALSE, msg |-> c.errors,
              events |-> <<"row_reader", "check_kind">>]
        ELSE [ok |-> TRUE, msg |-> <<>>,
              events |-> <<"row_reader", "check_kind", "row_batch">>]

(* ParallelRowIterator::new_with_options: check_kind on the selected kind
   of a row reader that is dropped *)
ParallelRowIterator_new_with_options(ty, kd) ==
    LET c == check_kind(ty, kd)
    IN  IF ~c.ok
        THEN [ok |-> FALSE, msg |-> c.errors,
              events |-> <<"row_reader", "check_kind">>]
        ELSE [ok |-> TRUE, msg |-> <<>>,
              events |-> <<"row_reader", "check_kind">>]

(* RowProducer::into_iter: a RowIterator built with the options of the
   parallel iterator, expected to be Ok, then seek *)
producer_into_iter(ty, kd) ==
    LET r == RowIterator_new_with_options(ty, kd)
    IN  IF ~r.ok
        THEN [ok |-> FALSE, events |-> r.events]
        ELSE [ok |-> TRUE, events |-> r.events \o <<"seek_to_row">>]

InitConstruct ==
    /\ stripes = <<>> /\ batch_size = 1
    /\ InitSeq /\ InitPar
    /\ col = [not_null |-> None, data |-> <<>>]
    /\ dst = <<>>
    /\ res = [called |-> FALSE, r |-> "", before |-> <<>>]
    /\ requested \in DecodedStructs
    /\ kind \in StructKinds
    /\ IdleSrc /\ IdleIter /\ IdleStrings /\ IdleLists
    /\ IdleConstruction

NewRowIterator ==
    /\ construction.st = "none"
    /\ LET r == RowIterator_new_with_options(requested, kind)
       IN  construction' = [st |-> IF r.ok THEN "RowIterator" ELSE "Err",
                            msg |-> r.msg, events |-> r.events, calls |-> 0]
    /\ UNCHANGED <<stripes, batch_size, col, dst, res, seqVars, parVars,
                   requested, kind, src, long_iterator, not_null_iterator,
                   yielded, strings, lists, range_iterator>>

NewParallelRowIterator ==
    /\ construction.st = "none"
    /\ LET r == ParallelRowIterator_new_with_options(requested, kind)
       IN  construction' = [st |-> IF r.ok THEN "ParallelRowIterator"
                                   ELSE "Err",
                            msg |-> r.msg, events |-> r.events, calls |-> 0]
    /\ UNCHANGED <<stripes, batch_size, col, dst, res, seqVars, parVars,
                   requested, kind, src, long_iterator, not_null_iterator,
                   yielded, strings, lists, range_iterator>>

ProducerIntoIter ==
    /\ construction.st = "ParallelRowIterator"
    /\ LET r == producer_into_iter(requested, kind)
       IN  construction' =
               [construction EXCEPT
                    !.st = IF r.ok THEN "RowIterator" ELSE "panic",
                    !.events = @ \o r.events]
    /\ UNCHANGED <<stripes, batch_size, col, dst, res, seqVars, parVars,
                   requested, kind, src, long_iterator, not_null_iterator,
                   yielded, strings, lists, range_iterator>>

(* next() on an exhausted decode buffer: a batch read, then decoded *)
IteratorNext ==
    /\ construction.st = "RowIterator"
    /\ construction.calls < MaxCalls
    /\ construction' =
           [construction EXCEPT
                !.events = @ \o <<"read_into", "read_from_vector_batch">>,
                !.calls = @ + 1]
    /\ UNCHANGED <<stripes, batch_size, col, dst, res, seqVars, parVars,
                   requested, kind, src, long_iterator, not_null_iterator,
                   yielded, strings, lists, range_iterator>>

NextConstruct ==
    NewRowIterator \/ NewParallelRowIterator \/ ProducerIntoIter
        \/ IteratorNext

SpecConstruct == InitConstruct /\ [][NextConstruct]_vars

----------------------------------------------------------------------------
(* Properties of one RowIterator *)

FreshForward == ~seeked /\ phase \in {"fwd", "fwdDone"}

(* C1: on a freshly constructed iterator, next() called until it returns
   None yields every row of the file exactly once, in file order, whatever
   the stripe layout and the batch size: while the run lasts the rows
   yielded are rows 0, 1, 2, ... and when None is returned they are all the
   rows of the file. *)
C1_ForwardYieldsAllRows ==
    FreshForward =>
        /\ ret.op = "next" => panicked = ""
        /\ fwd = Range(0, Len(fwd))
        /\ phase = "fwdDone" => fwd = Range(0, total_rows)

C1_Witness ==
    /\ FreshForward /\ phase = "fwdDone"
    /\ Len(stripes) = 2 /\ total_rows = 3 /\ batch_size = 2
    /\ fwd = <<0, 1, 2>>

(* C2: after a fresh iterator has been iterated forward to the end,
   next_back() called until it returns None yields the reverse of the
   forward sequence. *)
C2_BackwardIsReverse ==
    (~seeked /\ phase = "bwdDone") => bwd = Reverse(fwd)

(* C3: under any interleaving of next() and next_back() the iterator returns
   what a single cursor over [0, total_rows) returns. *)
C3_SingleCursor ==
    (~seeked /\ ret.op \in {"next", "next_back"}) =>
        /\ panicked = ""
        /\ ret.some = ideal.some
        /\ ret.v = ideal.v

(* C4: whatever was called before, seek(k) followed by next() until None
   yields rows k, k+1, ..., total_rows-1 in order. *)
C4_SeekThenForward ==
    (seeked /\ phase \in {"fwd", "fwdDone"}) =>
        /\ ret.op = "next" => panicked = ""
        /\ fwd = Range(start, start + Len(fwd))
        /\ phase = "fwdDone" => fwd = Range(start, total_rows)

C4_Witness ==
    /\ seeked /\ phase = "fwdDone"
    /\ total_rows = 3 /\ start = 1 /\ batch_size = 2
    /\ fwd = <<1, 2>>

(* C5: under any interleaving of next() and next_back(), len() is total_rows
   minus the position of the cursor. *)
C5_LenFollowsCursor ==
    (~seeked /\ panicked = "") =>
        len(it) = [v |-> total_rows - cursor, panic |-> ""]

(* C6: immediately after seek(k), len() is total_rows - k. *)
C6_LenAfterSeek ==
    (ret.op = "seek") => len(it) = [v |-> total_rows - ret.v, panic |-> ""]

C6_Witness ==
    /\ ret.op = "seek" /\ ret.v = 1 /\ total_rows = 3
    /\ it.batch # <<>>
    /\ len(it).v = 2

----------------------------------------------------------------------------
(* Properties of the parallel iterator *)

RECURSIVE Outs(_)
Outs(leaves) ==
    IF leaves = <<>> THEN <<>> ELSE Head(leaves).out \o Outs(Tail(leaves))

AllDone == \A i \in 1..Len(producers) : producers[i].st = "done"

IsPrefix(s, t) == Len(s) <= Len(t) /\ s = SubSeq(t, 1, Len(s))

(* C7: however the producer was split, the rows yielded by the leaves,
   concatenated in range order, are the rows a sequential RowIterator over
   the same reader yields. *)
C7_LeavesConcatIsSequential ==
    AllDone =>
        Outs(producers) = collect(stripes, new_with_options(stripes, batch_size))

C7_Witness ==
    /\ AllDone /\ Len(producers) = 3 /\ total_rows = 3 /\ batch_size = 2
    /\ producers[2].start = 1 /\ producers[2].end = 2
    /\ Outs(producers) = <<0, 1, 2>>

(* C8: the leaves produced by any sequence of split_at calls partition
   [0, total_rows) into contiguous ranges with start <= end. *)
C8_SplitsPartition ==
    producers # <<>> =>
        /\ producers[1].start = 0
        /\ producers[Len(producers)].end = total_rows
        /\ \A i \in 1..Len(producers) : producers[i].start <= producers[i].end
        /\ \A i \in 1..(Len(producers) - 1) :
               producers[i].end = producers[i + 1].start

C8_Witness ==
    /\ Len(producers) = 3 /\ total_rows = 3
    /\ producers[1].end = 1 /\ producers[2].end = 1 /\ producers[3].end = 3

(* what a leaf yields when it runs alone, with no other iterator around *)
Alone(leaf) ==
    LET a == into_iter(stripes, batch_size, NoReaders,
                       [leaf EXCEPT !.st = "producer"], 1)
    IN  collect_take(stripes, a.leaf.iter, a.leaf.n)

(* C9: under any interleaving of the next() calls of the leaves, each leaf
   yields the rows it yields when it runs alone. *)
C9_HalvesIndependent ==
    \A i \in 1..Len(producers) :
        /\ producers[i].st # "panicked"
        /\ producers[i].st \in {"iter", "done"} =>
               IsPrefix(producers[i].out, Alone(producers[i]))
        /\ producers[i].st = "done" => producers[i].out = Alone(producers[i])

C9_Witness ==
    /\ Len(producers) = 2 /\ total_rows = 3 /\ batch_size = 2
    /\ producers[1].st = "iter" /\ producers[1].out = <<0>> /\ producers[1].end = 2
    /\ producers[2].st = "iter" /\ producers[2].out = <<2>>

----------------------------------------------------------------------------
(* Properties of the scalar decoders *)

(* C10: decoding a non-Option scalar from a column whose validity bitmap is
   present returns UnexpectedNull and leaves every destination slot as it
   was, however many non-null values precede the first null. *)
C10_NullRejectedBeforeWrite ==
    (res.called /\ col.not_null.some) =>
        /\ res.r = "UnexpectedNull"
        /\ dst = res.before

C10_Witness ==
    /\ res.called /\ col.not_null = Some(<<1, 1, 0>>)
    /\ col.data = <<1, 2, 1>> /\ Len(dst) = 3
    /\ res.r = "UnexpectedNull"

----------------------------------------------------------------------------
(* Properties of check_kind *)

(* the requested positions (counted from 0) that fail against the actual
   struct kind: no actual field there, another name there, or a kind there
   that is not the one kind the field's type is decoded from *)
LeafKindOf ==
    {<<"bool", "Boolean">>, <<"i8", "Byte">>, <<"i16", "Short">>,
     <<"i32", "Int">>, <<"i64", "Long">>, <<"f32", "Float">>,
     <<"f64", "Double">>, <<"String", "String">>, <<"Vec<u8>", "Binary">>}

BaseOf(ty) == IF ty.t = "Option" THEN ty.args[1].t ELSE ty.t

FailingPositions ==
    {p \in 0..(Len(requested.fields) - 1) :
        \/ p >= Len(kind.fields)
        \/ kind.fields[p + 1].name # requested.fields[p + 1].name
        \/ <<BaseOf(requested.fields[p + 1].ty), kind.fields[p + 1].kind.k>>
               \notin LeafKindOf}

PositionOf(name) ==
    CHOOSE p \in 0..(Len(requested.fields) - 1) :
        requested.fields[p + 1].name = name

(* C12: check_kind of a derived struct against a struct kind reports one
   error line for every requested position that fails (wrong name, field
   kind rejected, or no actual field left), in position order and without
   stopping at the first failure, and returns Ok exactly when no requested
   position fails. *)
C12_OneLinePerFailingPosition ==
    (res.called /\ requested.t = "struct" /\ kind.k = "Struct") =>
        /\ res.r.ok <=> FailingPositions = {}
        /\ Len(res.r.errors) = Cardinality(FailingPositions)
        /\ {res.r.errors[j].field : j \in 1..Len(res.r.errors)}
               = {requested.fields[p + 1].name : p \in FailingPositions}
        /\ \A j, k \in 1..Len(res.r.errors) :
               j < k => PositionOf(res.r.errors[j].field)
                            < PositionOf(res.r.errors[k].field)
        /\ \A j \in 1..Len(res.r.errors) :
               res.r.errors[j].why = "must be called"
                   => res.r.errors[j].n = PositionOf(res.r.errors[j].field)

C12_Witness ==
    /\ res.called
    /\ requested = Struct(<<[name |-> "long1", ty |-> Option(Scalar("i64"))],
                            [name |-> "string1", ty |-> Option(Scalar("String"))],
                            [name |-> "bytes1", ty |-> Option(Scalar("Vec<u8>"))]>>)
    /\ kind = KindStruct(<<[name |-> "long1", kind |-> Kind("Long")],
                           [name |-> "bytes1", kind |-> Kind("Binary")],
                           [name |-> "string1", kind |-> Kind("String")]>>)
    /\ res.r = Err(<<[why |-> "must be called", n |-> 1, field |-> "string1",
                      got |-> "bytes1"],
                     [why |-> "must be called", n |-> 2, field |-> "bytes1",
                      got |-> "string1"]>>)

(* C13: check_kind of a scalar type succeeds exactly when the actual kind is
   the one leaf kind of that type (no widening: i64 rejects Int), and
   check_kind of Option<T> returns what check_kind of T returns. *)
C13_ScalarKindIsExact ==
    (res.called /\ requested.t # "struct") =>
        /\ res.r.ok <=> <<BaseOf(requested), kind.k>> \in LeafKindOf
        /\ requested.t = "Option"
               => res.r = check_kind(requested.args[1], kind)

C13_Witness ==
    /\ res.called
    /\ requested = Option(Scalar("i64"))
    /\ kind = Kind("Int")
    /\ ~res.r.ok
    /\ res.r.errors[1].got = "Int"

----------------------------------------------------------------------------
(* Properties of the decoders of structs and of their fields *)

IsNullAt(c, i) == c.not_null.some /\ c.not_null.v[i] = 0

HasNull(c) == \E i \in 1..src.num_elements : IsNullAt(c, i)

(* the call was given a batch of the columns of the struct and a slot for
   every row *)
WellFormedCall ==
    /\ res.called
    /\ Len(src.fields) = Len(requested.fields)
    /\ check_kind(requested, selected_kind(src)).ok
    /\ Len(res.before) >= src.num_elements

(* C11: decoding into a type that is not wrapped in Option from a column
   that contains nulls returns UnexpectedNull: the struct itself when one of
   its rows is null, and each of its fields that is not an Option when the
   column of the field has a null. *)
C11_NonOptionRejectsNulls ==
    (/\ WellFormedCall
     /\ \/ HasNull(src)
        \/ \E j \in 1..Len(requested.fields) :
               /\ requested.fields[j].ty.t # "Option"
               /\ HasNull(src.fields[j]))
        => res.r = "UnexpectedNull"

(* C14: when check_kind of the struct succeeds on the kind of a batch,
   decoding the batch never aborts on the number of its columns. *)
C14_CheckedKindHasTheColumns ==
    (res.called /\ check_kind(requested, selected_kind(src)).ok)
        => res.r # "panic"

(* the fields of the struct can each be decoded from their column: the
   column is of the class of the field, and has no validity bitmap unless
   the field is an Option *)
FieldsDecodable ==
    \A j \in 1..Len(requested.fields) :
        /\ src.fields[j].kind = NaturalKind(requested.fields[j].name)
        /\ requested.fields[j].ty.t # "Option" => ~src.fields[j].not_null.some

(* C15: decoding a struct batch into fewer slots than the batch has rows
   returns MismatchedLength and leaves every slot as it was; with a slot for
   every row the lengths are no error, and the decode of fields that can be
   decoded returns Ok with the number of rows of the batch. *)
C15_LengthCheckedBeforeWrite ==
    (res.called /\ Len(src.fields) = Len(requested.fields)) =>
        /\ Len(res.before) < src.num_elements
               => (res.r = "MismatchedLength" /\ dst = res.before)
        /\ Len(res.before) >= src.num_elements
               => /\ res.r # "MismatchedLength"
                  /\ FieldsDecodable
                         => (res.r = "Ok" /\ res.n = src.num_elements)

C15_Witness ==
    /\ res.called /\ Len(requested.fields) = 2 /\ Len(src.fields) = 2
    /\ src.num_elements = 2 /\ Len(res.before) = 1
    /\ res.r = "MismatchedLength"
    /\ dst = <<StaleStruct(requested)>>

(* C16: a decoder given fewer slots than the column has elements reports an
   error: it never returns Ok after writing the first rows only. *)
C16_NoSilentTruncation ==
    (res.called /\ Len(res.before) < Len(col.data)) => res.r # "Ok"

(* C19: after a decode that succeeds, slot i of every Option field holds
   None when row i of the column of the field is null and Some of the value
   of row i otherwise, whatever the nulls of the other rows and of the other
   columns. *)
C19_OptionsAlignedWithRows ==
    (WellFormedCall /\ res.r = "Ok") =>
        \A j \in 1..Len(requested.fields) : \A i \in 1..src.num_elements :
            requested.fields[j].ty.t = "Option" =>
                dst[i][j] = IF IsNullAt(src.fields[j], i) THEN None
                            ELSE Some(SlotValue(src.fields[j].name, i))

----------------------------------------------------------------------------
(* Properties of the iterators of LongVectorBatch *)

(* the number of non-null elements among the first i *)
NonNullBefore(c, i) == Cardinality({k \in 1..i : ~IsNullAt(c, k)})

(* C17: iter() over a batch of n elements yields n items and then None on
   every further call; item i is None when the bitmap is present and 0 at
   i, and otherwise Some of the next unread slot of the data array: the data
   cursor advances on non-null items only, the position cursor on every
   item. *)
C17_LongIterDenseCursor ==
    /\ Len(yielded.long) <= Len(col.data)
    /\ yielded.long_ends > 0 => Len(yielded.long) = Len(col.data)
    /\ long_iterator.not_null_index = Len(yielded.long)
    /\ long_iterator.data_index = NonNullBefore(col, Len(yielded.long))
    /\ \A i \in 1..Len(yielded.long) :
           yielded.long[i] = IF IsNullAt(col, i) THEN None
                             ELSE Some(col.data[NonNullBefore(col, i)])

C17_Witness ==
    /\ col.not_null = Some(<<1, 1, 1, 0>>)
    /\ SubSeq(col.data, 1, 3) = <<10, 20, 30>>
    /\ yielded.long = <<Some(10), Some(20), Some(30), None>>
    /\ yielded.long_ends = 2

(* C18: try_iter_not_null() returns None exactly when the batch has a
   validity bitmap; without one it yields the n data values in order and
   then None, the values iter() yields wrapped in Some; both are empty when
   n = 0. *)
C18_NotNullIterIsIter ==
    /\ not_null_iterator.some <=> ~col.not_null.some
    /\ not_null_iterator.some =>
           /\ IsPrefix(yielded.not_null, col.data)
           /\ yielded.not_null_ends > 0 => yielded.not_null = col.data
           /\ (yielded.not_null_ends > 0 /\ yielded.long_ends > 0) =>
                  yielded.long = [i \in 1..Len(yielded.not_null) |->
                                     Some(yielded.not_null[i])]

C18_Witness ==
    /\ ~col.not_null.some /\ col.data = <<10, 20, 30>>
    /\ yielded.not_null = <<10, 20, 30>> /\ yielded.not_null_ends = 1
    /\ yielded.long = <<Some(10), Some(20), Some(30)>> /\ yielded.long_ends = 1

----------------------------------------------------------------------------
(* Properties of StringVectorBatch *)

(* the string of row i as StringVectorBatchIterator reads it: lengths[i]
   bytes from data[i] on *)
RowBytes(c, i) == SubSeq(c.blob, c.data[i] + 1, c.data[i] + c.lengths[i])

PresentRows(c) == {i \in 1..Len(c.lengths) : ~IsNullAt(c, i)}

(* C20: ranges() returns one entry per row, None for a null row; the ranges
   of the other rows are ranges of bytes() that start at 0, each starts
   where the one of the previous non-null row ended and holds the string of
   its row, and the last one ends at the end of bytes(). *)
C20_RangesTileBytes ==
    res.called =>
        /\ Len(res.r) = Len(strings.lengths)
        /\ \A i \in 1..Len(res.r) :
               /\ res.r[i].some <=> i \in PresentRows(strings)
               /\ res.r[i].some =>
                      /\ res.r[i].end - res.r[i].start = strings.lengths[i]
                      /\ SubSeq(bytes(strings), res.r[i].start + 1, res.r[i].end)
                             = RowBytes(strings, i)
                      /\ res.r[i].start =
                             IF \E k \in PresentRows(strings) : k < i
                             THEN LET prev == CHOOSE k \in PresentRows(strings) :
                                          /\ k < i
                                          /\ \A l \in PresentRows(strings) :
                                                 l < i => l <= k
                                  IN  res.r[prev].end
                             ELSE 0
                      /\ (\A k \in PresentRows(strings) : k <= i)
                             => res.r[i].end = Len(bytes(strings))

C20_Witness ==
    /\ res.called
    /\ strings.not_null = Some(<<1, 1, 0, 1>>)
    /\ strings.lengths[1] = 3 /\ strings.lengths[2] = 3
    /\ strings.lengths[3] = 1 /\ strings.lengths[4] = 2
    /\ Len(bytes(strings)) = 8
    /\ res.r = <<[some |-> TRUE, start |-> 0, end |-> 3],
                 [some |-> TRUE, start |-> 3, end |-> 6],
                 [some |-> FALSE, start |-> 0, end |-> 0],
                 [some |-> TRUE, start |-> 6, end |-> 8]>>

----------------------------------------------------------------------------
(* Properties of the decoder of Option<struct> *)

(* C21: after a decode into Option<struct> slots that succeeds, slot i of
   every row i of the batch is None when the struct is null at row i and
   Some of a record otherwise, whatever the slot held before the call; the
   fields of a null row are not accessed, so no None is unwrapped. *)
C21_NullRowsAreNone ==
    (res.called /\ requested.t = "Option") =>
        /\ res.r = "Ok" =>
               \A i \in 1..src.num_elements :
                   dst[i].some = ~IsNullAt(src, i)
        /\ Len(res.before) >= src.num_elements => res.r # "panic"

----------------------------------------------------------------------------
(* Properties of iter_offsets() *)

(* C28: iter_offsets() on a batch of n rows yields n markers and then ends;
   the marker of a null row is None, the marker of a present row is
   Some(offsets[j]..offsets[j + 1]) where j is the number of present rows
   before it, so that a present range starts where the one before it ended;
   no offset is read at an index above the number of present rows. *)
C28_OffsetsByPresentRow ==
    LET ms == range_iterator.markers
        present == NonNullBefore(lists, lists.num_elements)
    IN  /\ Len(ms) <= lists.num_elements
        /\ range_iterator.ends > 0 => Len(ms) = lists.num_elements
        /\ \A i \in 1..Len(ms) :
               LET j == NonNullBefore(lists, i - 1)
               IN  ms[i] = IF IsNullAt(lists, i) THEN NoRange
                           ELSE SomeRange(lists.offsets[j + 1],
                                          lists.offsets[j + 2])
        /\ \A i, k \in 1..Len(ms) :
               (/\ i < k /\ ms[i].some /\ ms[k].some
                /\ \A l \in (i + 1)..(k - 1) : ~ms[l].some)
                   => ms[k].start = ms[i].end
        /\ \A x \in range_iterator.reads : x <= present

C28_Witness ==
    /\ lists.num_elements = 3
    /\ lists.not_null = Some(<<1, 0, 1>>)
    /\ lists.offsets = <<0, 1, 2, 2>>
    /\ range_iterator.ends > 0
    /\ range_iterator.markers = <<SomeRange(0, 1), NoRange, SomeRange(1, 2)>>
    /\ range_iterator.reads = {0, 1, 2}

----------------------------------------------------------------------------
(* Properties of the decoders of Vec<I> *)

(* the markers of the rows of the batch, one per row *)
RowRanges == collect_offsets(lists, iter_offsets(lists))

(* the present ranges, if any, start at 0, each starts where the one before
   it ended and does not end before it starts, and together they cover the
   elements of the flat vector: the offsets the decoders are meant for *)
ConsistentOffsets ==
    LET p == NonNullBefore(lists, lists.num_elements)
    IN  /\ p > 0 => lists.offsets[1] = 0
        /\ \A j \in 1..p : lists.offsets[j] <= lists.offsets[j + 1]
        /\ Len(lists.elements.data) = IF p = 0 THEN 0 ELSE lists.offsets[p + 1]

(* the call was given a slot for every row, a flat vector without nulls
   and, unless it decodes into Option<Vec>, a batch without nulls *)
WellFormedListCall ==
    /\ res.called
    /\ Len(res.before) = lists.num_elements
    /\ ~lists.elements.not_null.some
    /\ requested.t = "Option" \/ ~lists.not_null.some

(* C22: the decode of a list batch with consistent offsets writes to the
   slot of every present row the elements of the places start..end - 1 of
   the flat vector, in order, which is the empty list when start = end, and
   writes None to the slot of every null row. *)
C22_SlotsHoldTheirRange ==
    (WellFormedListCall /\ ConsistentOffsets) =>
        /\ res.r = "Ok"
        /\ \A i \in 1..lists.num_elements :
               LET elems == SubSeq(lists.elements.data,
                                   RowRanges[i].start + 1, RowRanges[i].end)
               IN  dst[i] = IF ~RowRanges[i].some THEN None
                            ELSE IF requested.t = "Option" THEN Some(elems)
                            ELSE elems

(* the lists of the slots, one after the other *)
RECURSIVE Flattened(_)
Flattened(d) ==
    IF d = <<>> THEN <<>>
    ELSE (IF requested.t # "Option" THEN Head(d)
          ELSE IF Head(d).some THEN Head(d).v ELSE <<>>)
         \o Flattened(Tail(d))

(* C23: the decode of a list batch returns Ok only from consistent offsets:
   with a first present range that does not start at 0, or offsets that
   cover fewer or more elements than the flat vector has, it aborts; when it
   returns Ok the lists of the present rows, in row order, make up the flat
   vector. *)
C23_OkOnlyFromConsistentOffsets ==
    res.called =>
        /\ (/\ Len(res.before) = lists.num_elements
            /\ ~lists.elements.not_null.some
            /\ requested.t = "Option" \/ ~lists.not_null.some
            /\ ~ConsistentOffsets) => res.r = "panic"
        /\ res.r = "Ok" => /\ ConsistentOffsets
                           /\ Flattened(dst) = lists.elements.data

C23_Witness ==
    /\ res.called /\ res.r = "Ok"
    /\ requested.t = "Option"
    /\ lists.not_null = Some(<<1, 1>>)
    /\ lists.offsets = <<0, 1, 2>>
    /\ dst = <<Some(<<ElementValue(1)>>), Some(<<ElementValue(2)>>)>>

----------------------------------------------------------------------------
(* Properties of the decode buffer of a RowIterator *)

(* C24: once next() has returned None, a next() that follows it directly
   returns None again: it does not return a row of the decode buffer. *)
C24_NoneIsFinal ==
    [][(/\ ret.op = "next" /\ ~ret.some /\ panicked = ""
        /\ ret'.op = "next" /\ panicked' = "") => ~ret'.some]_vars

(* C25: no call of next(), next_back(), seek(k) with k <= total_rows or
   len() on an iterator, from its construction on, fails an assertion. *)
C25_NoAssertionFails == panicked = ""

(* C27: the index never exceeds the number of decoded rows, which never
   exceeds the batch size, and a row returned by next() or next_back() is
   the content of a slot of the decode buffer below the number of decoded
   rows. *)
C27_IndexWithinDecodedRows ==
    /\ [](/\ 0 <= it.index
          /\ it.index <= it.decoded_items
          /\ it.decoded_items <= batch_size
          /\ Len(it.decoded_batch) = batch_size)
    /\ [][(ret'.op = "next" /\ ret'.some /\ panicked' = "")
              => /\ it'.index - 1 < it'.decoded_items
                 /\ ret'.v = it'.decoded_batch[it'.index]]_vars
    /\ [][(ret'.op = "next_back" /\ ret'.some /\ panicked' = "")
              => /\ it'.index < it'.decoded_items
                 /\ ret'.v = it'.decoded_batch[it'.index + 1]]_vars

C27_Witness ==
    /\ ret.op = "next_back" /\ ret.some /\ panicked = ""
    /\ batch_size = 2
    /\ it.decoded_items = 2
    /\ it.index = 1
    /\ ret.v = it.decoded_batch[2]

----------------------------------------------------------------------------
(* Frame of a struct decode that fails *)

(* C26: a struct decode that returns an error leaves every slot of the
   destination as it was before the call. *)
C26_ErrorLeavesDstUnchanged ==
    (/\ res.called /\ requested.t = "struct"
     /\ res.r \notin {"Ok", "panic"}) => dst = res.before

----------------------------------------------------------------------------
(* One addressing rule for the iterators of the scalar batches *)

(* C29: the iterator of every class of batch (long, double, decimal, string,
   timestamp) yields one item per row, None for a null row, and for the k-th
   non-null row the content of slot k of the data array: the data cursor
   advances on the non-null rows only. *)
C29_AllIteratorsDenseCursor ==
    res.called =>
        /\ Len(res.items) = Len(col.data)
        /\ \A i \in 1..Len(col.data) :
               res.items[i] = IF IsNullAt(col, i) THEN None
                              ELSE Some(col.data[NonNullBefore(col, i)])

----------------------------------------------------------------------------
(* Validation before decoding *)

(* C30: the constructors of RowIterator and of ParallelRowIterator call
   check_kind on the selected kind of the row reader before any batch is
   read or decoded; when it fails they return its message and no iterator,
   so that no batch is ever read or decoded for a type that failed the
   check. *)
C30_CheckedBeforeDecode ==
    LET ev == construction.events
        reads == {i \in 1..Len(ev) :
                     ev[i] \in {"read_into", "read_from_vector_batch"}}
        c == check_kind(requested, kind)
    IN  /\ \A i \in reads : \E j \in 1..(i - 1) : ev[j] = "check_kind"
        /\ construction.st # "none" =>
               /\ Len(ev) >= 2 /\ ev[2] = "check_kind"
               /\ ~c.ok => (construction.st = "Err" /\ construction.msg = c.errors)
        /\ ~c.ok => reads = {}

C30_Witness ==
    /\ construction.st = "Err"
    /\ Len(requested.fields) = 2
    /\ Len(construction.msg) = 2
    /\ construction.events = <<"row_reader", "check_kind">>

====
